---- MODULE Spec2Model ----
(***************************************************************************)
(* UK Road Collision Explorer (src/app.py): a Streamlit script that is     *)
(* re-executed top to bottom on every user action.  The model keeps the    *)
(* per-session state (st.session_state), the state Streamlit keeps for the *)
(* widgets of the filter form, and what the last script run put on the     *)
(* page.  One action of the model is one complete script run.              *)
(***************************************************************************)
EXTENDS Integers, Sequences, FiniteSets, TLC

VARIABLES
    session_state,   \* st.session_state: map_mode, severity, years, weather,
                     \* light, road, map_object, df_filtered, initialized
    widget_id,       \* per form widget, the `default`/`value` argument it was
                     \* registered with in the last run (part of its identity)
    widget_state,    \* the value Streamlit holds for each form widget
    rerun_requested, \* st.rerun() was called and the re-run has not started
    started,         \* the script has run at least once in this session
    run,             \* observations of the last script run
    page,            \* what the last script run rendered below the header
    call,            \* one call of apply_filters: its arguments and result
    resets           \* the views left by the resets pressed in a row, when
                     \* they are kept for inspection (None when they are not)

vars == <<session_state, widget_id, widget_state, rerun_requested, started,
          run, page, call, resets>>

-----------------------------------------------------------------------------
(* Python values *)

\* None is the empty option, Some(x) a present value.
None == <<>>
Some(x) == <<x>>
IsNone(o) == o = <<>>
Get(o) == o[1]

\* float('nan'), which pd.to_numeric(errors="coerce") and a missing cell give.
NaN == -100000

RECURSIVE MinOf(_)
MinOf(s) == IF Len(s) = 1 THEN s[1]
            ELSE LET m == MinOf(Tail(s)) IN IF s[1] < m THEN s[1] ELSE m

RECURSIVE MaxOf(_)
MaxOf(s) == IF Len(s) = 1 THEN s[1]
            ELSE LET m == MaxOf(Tail(s)) IN IF s[1] > m THEN s[1] ELSE m

\* A membership test that only looks at the value listed first.
isin_first_listed(x, values) == Len(values) > 0 /\ values[1] = x

\* Series.isin(values): membership in the listed values, whatever their order.
isin(x, values) == \E i \in DOMAIN values : values[i] = x

\* A between that leaves out its right end.
between_right_open(x, left, right) == x # NaN /\ left <= x /\ x < right

\* Series.between(left, right): inclusive on both ends, False for NaN.
between(x, left, right) == x # NaN /\ left <= x /\ x <= right

\* The values of s in the order of the alphabet `order` without repetition:
\* sorted(series.unique()).
sorted_unique(s, order) == SelectSeq(order, LAMBDA v : isin(v, s))

Column(d, c) == [i \in DOMAIN d |-> d[i][c]]

-----------------------------------------------------------------------------
(* LOAD DATA *)

\* Alphabetical order of the category values of each column.
SeverityOrder == <<"Fatal", "Serious", "Slight">>
WeatherOrder == <<"Fine", "Raining">>
LightOrder == <<"Darkness", "Daylight">>
RoadOrder == <<"Dual carriageway", "Single carriageway">>

\* collision.csv: coordinates in hundredths of a degree (NaN for a missing
\* cell), severity as the STATS19 code, the year cell either a number or a
\* text that is none, and category texts without surrounding blanks.
collision_csv ==
    << [latitude |-> 5150, longitude |-> -10, collision_severity |-> 1,
        collision_year |-> [number |-> 2019], weather_conditions |-> "Fine",
        light_conditions |-> "Daylight", road_type |-> "Single carriageway"],
       [latitude |-> 5200, longitude |-> NaN, collision_severity |-> 2,
        collision_year |-> [number |-> 2020], weather_conditions |-> "Raining",
        light_conditions |-> "Darkness", road_type |-> "Dual carriageway"],
       [latitude |-> 5340, longitude |-> -290, collision_severity |-> 3,
        collision_year |-> [number |-> 2020], weather_conditions |-> "Fine",
        light_conditions |-> "Daylight", road_type |-> "Single carriageway"],
       [latitude |-> 5594, longitude |-> -320, collision_severity |-> 3,
        collision_year |-> [text |-> "unknown"], weather_conditions |-> "Fine",
        light_conditions |-> "Daylight", road_type |-> "Single carriageway"] >>

severity_map(code) == CASE code = 1 -> "Fatal"
                        [] code = 2 -> "Serious"
                        [] code = 3 -> "Slight"
                        [] OTHER -> "nan"

\* pd.to_numeric(errors="coerce"): the number, NaN for what is none.
to_numeric(cell) == IF "number" \in DOMAIN cell THEN cell.number ELSE NaN

\* A load that keeps the rows without coordinates.
load_data_keeping_all(csv) ==
    [i \in DOMAIN csv |->
        [csv[i] EXCEPT !.collision_severity = severity_map(@),
                       !.collision_year = to_numeric(@)]]

load_data(csv) ==
    LET kept == SelectSeq(csv, LAMBDA row :
                    row.latitude # NaN /\ row.longitude # NaN)
    IN  [i \in DOMAIN kept |->
            [kept[i] EXCEPT !.collision_severity = severity_map(@),
                            !.collision_year = to_numeric(@)]]

df == load_data(collision_csv)

-----------------------------------------------------------------------------
(* DEFAULT FILTERS *)

YearsOf(d) == SelectSeq(Column(d, "collision_year"), LAMBDA y : y # NaN)

DEFAULTS ==
    [map_mode |-> "Cluster",
     severity |-> sorted_unique(Column(df, "collision_severity"), SeverityOrder),
     years    |-> <<MinOf(YearsOf(df)), MaxOf(YearsOf(df))>>,
     weather  |-> sorted_unique(Column(df, "weather_conditions"), WeatherOrder),
     light    |-> sorted_unique(Column(df, "light_conditions"), LightOrder),
     road     |-> sorted_unique(Column(df, "road_type"), RoadOrder)]

\* The filter values held in a session state / returned by the form.
FilterOf(s) == [map_mode |-> s.map_mode, severity |-> s.severity,
                years |-> s.years, weather |-> s.weather,
                light |-> s.light, road |-> s.road]

-----------------------------------------------------------------------------
(* FILTER FUNCTION *)

RECURSIVE BoolIndex(_, _)
\* d[mask]: the rows of d whose mask entry is True, in the order of d.
BoolIndex(d, mask) ==
    IF Len(d) = 0 THEN <<>>
    ELSE IF mask[1] THEN <<d[1]>> \o BoolIndex(Tail(d), Tail(mask))
         ELSE BoolIndex(Tail(d), Tail(mask))

apply_filters(d, sev, yrs, wea, lig, roa) ==
    LET mask == [i \in DOMAIN d |->
                    /\ isin(d[i].collision_severity, sev)
                    /\ between(d[i].collision_year, yrs[1], yrs[2])
                    /\ isin(d[i].weather_conditions, wea)
                    /\ isin(d[i].light_conditions, lig)
                    /\ isin(d[i].road_type, roa)]
    IN  BoolIndex(d, mask)

-----------------------------------------------------------------------------
(* MAP BUILDER (folium.Map plus one FastMarkerCluster or HeatMap layer) *)

build_map(sub, mode) ==
    LET coords == [i \in DOMAIN sub |-> <<sub[i].latitude, sub[i].longitude>>]
        lat == Column(sub, "latitude")
        lon == Column(sub, "longitude")
    IN  [location |-> <<(MinOf(lat) + MaxOf(lat)) \div 2,
                        (MinOf(lon) + MaxOf(lon)) \div 2>>,
         layer    |-> IF mode = "Cluster" THEN "FastMarkerCluster" ELSE "HeatMap",
         coords   |-> coords]

-----------------------------------------------------------------------------
(* SUMMARY *)

\* A summary that cuts the rate off after the second decimal place.
summary_truncating(sub) ==
    LET total == Len(sub)
        fatal == Len(SelectSeq(sub, LAMBDA row : row.collision_severity = "Fatal"))
    IN  [total |-> total, fatal |-> fatal,
         rate  |-> (fatal * 10000) \div total]

\* total, fatal and the fatality rate as printed by {:.2f}, in hundredths of
\* a percent.
summary(sub) ==
    LET total == Len(sub)
        fatal == Len(SelectSeq(sub, LAMBDA row : row.collision_severity = "Fatal"))
    IN  [total |-> total, fatal |-> fatal,
         rate  |-> (2 * fatal * 10000 + total) \div (2 * total)]

\* What a run that reaches the end of the script renders from the session.
render_view(ss) ==
    [warning   |-> FALSE,
     exception |-> FALSE,
     summary   |-> IF IsNone(ss.df_filtered) THEN None
                   ELSE Some(summary(Get(ss.df_filtered))),
     map       |-> ss.map_object]

\* A run halted by st.stop() after the warning, by st.rerun(), or by an
\* uncaught exception renders neither summary nor map.
halted_view(warned, raised) ==
    [warning |-> warned, exception |-> raised, summary |-> None, map |-> None]

-----------------------------------------------------------------------------
(* SIDEBAR FILTER FORM *)

MapModes == <<"Cluster", "Heatmap">>

\* A widget created without a key is identified by its arguments.  The
\* multiselects and the slider get their default from the session state, so
\* a changed session value makes a new widget that starts from that default,
\* and an unchanged one keeps the value held for it.  The radio always has
\* index=0, so it keeps its value for the whole session.
widget_value(registered, default, held) ==
    IF registered = default THEN held ELSE default

filter_form(ss, wid, form) ==
    [map_mode |-> form.map_mode,
     severity |-> widget_value(wid.severity, ss.severity, form.severity),
     years    |-> widget_value(wid.years, ss.years, form.years),
     weather  |-> widget_value(wid.weather, ss.weather, form.weather),
     light    |-> widget_value(wid.light, ss.light, form.light),
     road     |-> widget_value(wid.road, ss.road, form.road)]

\* The arguments the five session-dependent widgets are registered with.
registered_with(ss) ==
    [severity |-> ss.severity, years |-> ss.years, weather |-> ss.weather,
     light |-> ss.light, road |-> ss.road]

(* What a user can do to the form before pressing one of its buttons. *)

\* Number of widget gestures a user makes between two submissions.
MaxEdits == 1

Remove(v, i) == SubSeq(v, 1, i - 1) \o SubSeq(v, i + 1, Len(v))

\* A multiselect returns the chosen options in the order they were chosen.
Toggle(v, options) ==
    {Remove(v, i) : i \in DOMAIN v}
        \cup {Append(v, options[j]) :
                 j \in {k \in DOMAIN options : ~isin(options[k], v)}}

\* The range slider returns (low, high) with min <= low <= high <= max.
SliderRanges ==
    {y \in (DEFAULTS.years[1]..DEFAULTS.years[2])
              \X (DEFAULTS.years[1]..DEFAULTS.years[2]) : y[1] <= y[2]}

\* One gesture: pick the other radio option, add or remove one option of a
\* multiselect, or drag one handle of the slider.
Edit1(f) ==
    {[f EXCEPT !.map_mode = MapModes[i]] : i \in DOMAIN MapModes}
    \cup {[f EXCEPT !.severity = v] : v \in Toggle(f.severity, DEFAULTS.severity)}
    \cup {[f EXCEPT !.years = y] :
             y \in {z \in SliderRanges : z[1] = f.years[1] \/ z[2] = f.years[2]}}
    \cup {[f EXCEPT !.weather = v] : v \in Toggle(f.weather, DEFAULTS.weather)}
    \cup {[f EXCEPT !.light = v] : v \in Toggle(f.light, DEFAULTS.light)}
    \cup {[f EXCEPT !.road = v] : v \in Toggle(f.road, DEFAULTS.road)}

RECURSIVE Edits(_, _)
Edits(f, n) ==
    IF n = 0 THEN {f}
    ELSE LET before == Edits(f, n - 1)
         IN  before \cup UNION {Edit1(g) : g \in before}

\* The form contents a user can submit from what the page shows.
Submissions == Edits(widget_state, MaxEdits)

-----------------------------------------------------------------------------
(* ONE SCRIPT RUN *)

\* Lines 161-168: the filter call on the stored filters.
filtered_of(ss) ==
    apply_filters(df, ss.severity, ss.years, ss.weather, ss.light, ss.road)

\* A map is stored and the session is marked initialized.
Populated(ss) == ss.initialized /\ ~IsNone(ss.map_object)

\* The stored subset and map are the ones the stored filter values produce.
ViewMatches(ss) ==
    LET sub == filtered_of(ss)
    IN  /\ Len(sub) > 0
        /\ ss.df_filtered = Some(sub)
        /\ ss.map_object = Some(build_map(sub, ss.map_mode))

\* An apply block that only runs while the session is not initialized.
enters_apply_block_first_load_only(kind, ss) == ~ss.initialized

\* An apply block that only runs on the button.
enters_apply_block_button_only(kind, ss) == kind = "apply"

\* Line 151: the apply block runs on the button or while not initialized.
enters_apply_block(kind, ss) == kind = "apply" \/ ~ss.initialized

\* In how many of the six filter values two filter records differ.
Differences(a, b) ==
    Cardinality({k \in {"map_mode", "severity", "years", "weather", "light", "road"} :
                    a[k] # b[k]})

\* What a run leaves for inspection: the button or event that caused it, how
\* it ended, how often it called the filter and the Map Builder, whether it
\* started from a populated session and, for an apply, whether that session's
\* view was the one of its stored filters and in how many fields the form
\* differed from them.
Observed(kind, outcome, filtered, built, form) ==
    [kind |-> kind, outcome |-> outcome, filtered |-> filtered, built |-> built,
     populated |-> Populated(session_state),
     matched |-> /\ kind = "apply"
                 /\ Populated(session_state)
                 /\ ViewMatches(session_state),
     differs |-> IF kind = "apply" THEN Differences(form, session_state) ELSE 0]

\* RESET FILTERS (lines 141-146): defaults, no map, not initialized, re-run.
reset_block(ss) ==
    [ss EXCEPT !.map_mode = DEFAULTS.map_mode, !.severity = DEFAULTS.severity,
               !.years = DEFAULTS.years, !.weather = DEFAULTS.weather,
               !.light = DEFAULTS.light, !.road = DEFAULTS.road,
               !.map_object = None, !.initialized = FALSE]

\* An apply block that forgets line 153 and keeps the stored map mode.
store_filters_without_mode(ss, form) ==
    [ss EXCEPT !.severity = form.severity,
               !.years = form.years, !.weather = form.weather,
               !.light = form.light, !.road = form.road]

\* An apply block that drops the stored view before it filters.
store_filters_dropping_view(ss, form) ==
    [ss EXCEPT !.map_mode = form.map_mode, !.severity = form.severity,
               !.years = form.years, !.weather = form.weather,
               !.light = form.light, !.road = form.road,
               !.map_object = None, !.df_filtered = None]

\* An apply block that stores the subset before it looks whether it is empty.
store_filters_and_subset(ss, form) ==
    [ss EXCEPT !.map_mode = form.map_mode, !.severity = form.severity,
               !.years = form.years, !.weather = form.weather,
               !.light = form.light, !.road = form.road,
               !.df_filtered =
                   Some(apply_filters(df, form.severity, form.years,
                                      form.weather, form.light, form.road))]

\* Lines 153-158: the session filters are overwritten by the form's values.
store_filters(ss, form) ==
    [ss EXCEPT !.map_mode = form.map_mode, !.severity = form.severity,
               !.years = form.years, !.weather = form.weather,
               !.light = form.light, !.road = form.road]

\* Line 174.
store_subset(ss, sub) == [ss EXCEPT !.df_filtered = Some(sub)]

\* Lines 176-193.
store_map(ss, sub) ==
    [ss EXCEPT !.map_object = Some(build_map(sub, ss.map_mode)),
               !.initialized = TRUE]

\* The view a reset has left once the re-run it scheduled has ended.
view_left(ss, built) ==
    [filters |-> FilterOf(ss), df_filtered |-> ss.df_filtered,
     map_object |-> ss.map_object, built |-> built]

\* The record of the resets pressed in a row: the re-run of a reset adds the
\* view it leaves (the last two are kept), the run of a reset itself leaves
\* the record alone, and any other run starts it afresh.
note_reset(h, kind, ss, built) ==
    IF IsNone(h) THEN h
    ELSE IF kind = "reset" THEN h
    ELSE IF kind = "autorerun"
    THEN LET seen == Get(h)
         IN  Some(Append(IF Len(seen) = 2 THEN Tail(seen) ELSE seen,
                         view_left(ss, built)))
    ELSE Some(<<>>)

\* The script from the form (line 87) to the map render (line 223), given the
\* values `form` the widgets return, the button pressed (kind "apply" or
\* "reset", none otherwise) and whether the Map Builder raises.
Script(form, kind, fault) ==
    /\ call' = call
    /\ widget_id' = registered_with(session_state)
    /\ widget_state' = form
    /\ started' = TRUE
    /\ IF kind = "reset"
       THEN /\ ~fault
            /\ session_state' = reset_block(session_state)
            /\ rerun_requested' = TRUE
            /\ page' = halted_view(FALSE, FALSE)
            /\ run' = Observed(kind, "rerun", 0, 0, form)
       ELSE /\ rerun_requested' = FALSE
            /\ IF enters_apply_block(kind, session_state)
               THEN LET ss1 == store_filters(session_state, form)
                        sub == filtered_of(ss1)
                    IN  IF Len(sub) = 0
                        THEN /\ ~fault
                             /\ session_state' = ss1
                             /\ page' = halted_view(TRUE, FALSE)
                             /\ run' = Observed(kind, "nodata", 1, 0, form)
                        ELSE IF fault
                        THEN /\ session_state' = store_subset(ss1, sub)
                             /\ page' = halted_view(FALSE, TRUE)
                             /\ run' = Observed(kind, "error", 1, 1, form)
                        ELSE /\ session_state' =
                                    store_map(store_subset(ss1, sub), sub)
                             /\ page' = render_view(session_state')
                             /\ run' = Observed(kind, "map", 1, 1, form)
               ELSE /\ ~fault
                    /\ session_state' = session_state
                    /\ page' = render_view(session_state)
                    /\ run' = Observed(kind, "idle", 0, 0, form)
    /\ resets' = note_reset(resets, kind, session_state', run'.built)

\* A run whose form widgets are the Streamlit widgets of lines 87-123.
ScriptRun(submitted, kind, fault) ==
    Script(filter_form(session_state, widget_id, submitted), kind, fault)

-----------------------------------------------------------------------------
(* THE SESSION *)

\* No call of apply_filters under observation.
NoCall == <<>>

\* Lines 68-79 on an empty session state; the widgets do not exist yet and
\* will be created with their defaults.
InitSession ==
    /\ session_state = [map_mode |-> DEFAULTS.map_mode,
                        severity |-> DEFAULTS.severity,
                        years |-> DEFAULTS.years,
                        weather |-> DEFAULTS.weather,
                        light |-> DEFAULTS.light,
                        road |-> DEFAULTS.road,
                        map_object |-> None,
                        df_filtered |-> None,
                        initialized |-> FALSE]
    /\ widget_id = registered_with(DEFAULTS)
    /\ widget_state = [FilterOf(DEFAULTS) EXCEPT !.map_mode = MapModes[1]]
    /\ rerun_requested = FALSE
    /\ started = FALSE
    /\ run = [kind |-> "none", outcome |-> "none", filtered |-> 0, built |-> 0,
              populated |-> FALSE, matched |-> FALSE, differs |-> 0]
    /\ page = halted_view(FALSE, FALSE)

Init == InitSession /\ call = NoCall /\ resets = None

\* The same session with the views of consecutive resets kept.
InitTwice == InitSession /\ call = NoCall /\ resets = Some(<<>>)

\* The page is opened: the first run, no button pressed.
FirstDisplay ==
    /\ ~started
    /\ ScriptRun(widget_state, "first", FALSE)

\* The user edits the form and presses "Apply filters".
Apply ==
    /\ started /\ ~rerun_requested
    /\ \E f \in Submissions : ScriptRun(f, "apply", FALSE)

\* The user edits the form and presses "Reset filters".
Reset ==
    /\ started /\ ~rerun_requested
    /\ \E f \in Submissions : ScriptRun(f, "reset", FALSE)

\* A re-run with no button pressed (the app menu's Rerun).
Rerun ==
    /\ started /\ ~rerun_requested
    /\ ScriptRun(widget_state, "rerun", FALSE)

\* The re-run that st.rerun() scheduled.
AutoRerun ==
    /\ rerun_requested
    /\ ScriptRun(widget_state, "autorerun", FALSE)

Next == FirstDisplay \/ Apply \/ Reset \/ Rerun \/ AutoRerun

Spec == Init /\ [][Next]_vars

SpecTwice == InitTwice /\ [][Next]_vars

\* st.rerun() (line 146) ends the run and makes Streamlit start the script
\* again at once, so a requested re-run does happen; nothing makes a user
\* press a button or re-run the page.
SpecLive == Init /\ [][Next]_vars /\ WF_vars(AutoRerun)

-----------------------------------------------------------------------------
(* THE SESSION WITH A MAP BUILDER THAT CAN RAISE *)

\* A run in which folium raises between line 176 and line 192.
BuildFault ==
    \/ ~started /\ ScriptRun(widget_state, "first", TRUE)
    \/ /\ started /\ ~rerun_requested
       /\ \E f \in Submissions : ScriptRun(f, "apply", TRUE)
    \/ started /\ ~rerun_requested /\ ScriptRun(widget_state, "rerun", TRUE)
    \/ rerun_requested /\ ScriptRun(widget_state, "autorerun", TRUE)

NextFault == Next \/ BuildFault

SpecFault == Init /\ [][NextFault]_vars

-----------------------------------------------------------------------------
(* THE SESSION WITH A FORM THAT CAN DELIVER AN INVERTED YEAR RANGE *)

InvertedRanges ==
    {y \in (DEFAULTS.years[1]..DEFAULTS.years[2])
              \X (DEFAULTS.years[1]..DEFAULTS.years[2]) : y[1] > y[2]}

\* "Apply filters" with a year range the slider itself never returns.
ApplyMalformed ==
    /\ started /\ ~rerun_requested
    /\ \E f \in Submissions, y \in InvertedRanges :
          Script([filter_form(session_state, widget_id, f) EXCEPT !.years = y],
                 "apply", FALSE)

NextMalformed == Next \/ ApplyMalformed

SpecMalformed == Init /\ [][NextMalformed]_vars

-----------------------------------------------------------------------------
(* apply_filters ON ITS OWN *)

\* Longest dataset passed to the filter.
MaxRows == 2

Row(sev, year) ==
    [latitude |-> 5150, longitude |-> -10, collision_severity |-> sev,
     collision_year |-> year, weather_conditions |-> "Fine",
     light_conditions |-> "Daylight", road_type |-> "Single carriageway"]

Rows == {Row(sev, year) : sev \in {"Fatal", "Slight"}, year \in {NaN, 2019, 2020}}

Datasets == UNION {[1..n -> Rows] : n \in 0..MaxRows}

Selections(options) == {<<>>} \cup {<<o>> : o \in options}

FilterCalls ==
    {[d |-> d, sev |-> sev, yrs |-> yrs, wea |-> wea, lig |-> lig, roa |-> roa,
      result |-> <<>>, done |-> FALSE] :
        d \in Datasets,
        sev \in Selections({"Fatal", "Slight"})
                  \cup {<<"Fatal", "Slight">>, <<"Slight", "Fatal">>},
        yrs \in (2019..2020) \X (2019..2020),
        wea \in Selections({"Fine", "Raining"}),
        lig \in Selections({"Daylight"}),
        roa \in Selections({"Single carriageway"})}

InitFilter == InitSession /\ call \in FilterCalls /\ resets = None

CallFilter ==
    /\ ~call.done
    /\ call' = [call EXCEPT
                   !.result = apply_filters(call.d, call.sev, call.yrs,
                                            call.wea, call.lig, call.roa),
                   !.done = TRUE]
    /\ UNCHANGED <<session_state, widget_id, widget_state, rerun_requested,
                   started, run, page, resets>>

SpecFilter == InitFilter /\ [][CallFilter]_vars

-----------------------------------------------------------------------------
(* apply_filters AND ITS MEMO KEY ON REORDERED SELECTIONS *)

\* @st.cache_data (line 128) looks a call up by the hash of its argument
\* values.  A list is hashed item by item in the order it has, a tuple
\* likewise, so the key is kept here as the arguments themselves, in order.
cache_key(d, sev, yrs, wea, lig, roa) == <<d, sev, yrs, wea, lig, roa>>

\* The lists a multiselect can return for the chosen options S: one for each
\* order in which they can have been chosen.
Orderings(S) ==
    {v \in [1..Cardinality(S) -> S] :
        \A i, j \in DOMAIN v : i # j => v[i] # v[j]}

Chosen(options) == UNION {Orderings(S) : S \in SUBSET options}

\* Two returns of one multiselect with the same options chosen.
Reordered(options) ==
    {p \in Chosen(options) \X Chosen(options) :
        {p[1][i] : i \in DOMAIN p[1]} = {p[2][i] : i \in DOMAIN p[2]}}

ReorderedCalls ==
    {[d |-> d,
      f1 |-> [severity |-> sev[1], years |-> yrs, weather |-> wea[1],
              light |-> <<"Daylight">>, road |-> <<"Single carriageway">>],
      f2 |-> [severity |-> sev[2], years |-> yrs, weather |-> wea[2],
              light |-> <<"Daylight">>, road |-> <<"Single carriageway">>],
      key1 |-> <<>>, key2 |-> <<>>, result1 |-> <<>>, result2 |-> <<>>,
      done |-> FALSE] :
        d \in Datasets,
        sev \in Reordered({"Fatal", "Serious", "Slight"}),
        yrs \in {<<2019, 2020>>, <<2020, 2020>>},
        wea \in Reordered({"Fine", "Raining"})}

InitKey == InitSession /\ call \in ReorderedCalls /\ resets = None

\* Lines 161-168 twice, on the two selections.
CallReordered ==
    /\ ~call.done
    /\ call' = [call EXCEPT
                   !.key1 = cache_key(call.d, call.f1.severity, call.f1.years,
                                      call.f1.weather, call.f1.light,
                                      call.f1.road),
                   !.result1 = apply_filters(call.d, call.f1.severity,
                                             call.f1.years, call.f1.weather,
                                             call.f1.light, call.f1.road),
                   !.key2 = cache_key(call.d, call.f2.severity, call.f2.years,
                                      call.f2.weather, call.f2.light,
                                      call.f2.road),
                   !.result2 = apply_filters(call.d, call.f2.severity,
                                             call.f2.years, call.f2.weather,
                                             call.f2.light, call.f2.road),
                   !.done = TRUE]
    /\ UNCHANGED <<session_state, widget_id, widget_state, rerun_requested,
                   started, run, page, resets>>

SpecKey == InitKey /\ [][CallReordered]_vars

-----------------------------------------------------------------------------
(* FILTER, MAP BUILD, SUMMARY AND MAP RENDER ON ANY DATASET *)

\* Longest dataset whose view is rendered.
MaxShown == 3

\* The two records of the specification's scenario.
scenario_dataset ==
    << [latitude |-> 5150, longitude |-> -10, collision_severity |-> "Fatal",
        collision_year |-> 2019, weather_conditions |-> "Fine",
        light_conditions |-> "Daylight", road_type |-> "Single carriageway"],
       [latitude |-> 5340, longitude |-> -290, collision_severity |-> "Slight",
        collision_year |-> 2020, weather_conditions |-> "Raining",
        light_conditions |-> "Darkness", road_type |-> "Dual carriageway"] >>

\* The scenario's filter values: everything selected.
scenario_filters ==
    [map_mode |-> "Cluster", severity |-> <<"Fatal", "Slight">>,
     years |-> <<2019, 2020>>, weather |-> <<"Fine", "Raining">>,
     light |-> <<"Daylight", "Darkness">>,
     road |-> <<"Single carriageway", "Dual carriageway">>]

ViewCalls ==
    {[d |-> d,
      f |-> [scenario_filters EXCEPT !.map_mode = mode, !.severity = sev,
                                     !.years = yrs],
      page |-> halted_view(FALSE, FALSE), done |-> FALSE] :
        d \in {scenario_dataset} \cup UNION {[1..n -> Rows] : n \in 0..MaxShown},
        mode \in {MapModes[i] : i \in DOMAIN MapModes},
        sev \in Selections({"Fatal", "Slight"})
                  \cup {<<"Fatal", "Slight">>, <<"Slight", "Fatal">>},
        yrs \in {<<2019, 2020>>, <<2020, 2020>>}}

InitView == InitSession /\ call \in ViewCalls /\ resets = None

\* Lines 161-223 for the filter values f on the dataset d: filter, stop on an
\* empty result, else store subset and map and render summary and map.
CallView ==
    /\ ~call.done
    /\ LET sub == apply_filters(call.d, call.f.severity, call.f.years,
                                call.f.weather, call.f.light, call.f.road)
       IN  call' = [call EXCEPT
                       !.page = IF Len(sub) = 0 THEN halted_view(TRUE, FALSE)
                                ELSE render_view(
                                       [df_filtered |-> Some(sub),
                                        map_object |->
                                            Some(build_map(sub, call.f.map_mode))]),
                       !.done = TRUE]
    /\ UNCHANGED <<session_state, widget_id, widget_state, rerun_requested,
                   started, run, page, resets>>

SpecView == InitView /\ [][CallView]_vars

-----------------------------------------------------------------------------
(* PROPERTIES *)

\* The view the form's values `f` select: subset and map.
SubsetOf(f) == apply_filters(df, f.severity, f.years, f.weather, f.light, f.road)
MapOf(f) == build_map(SubsetOf(f), f.map_mode)

\* The session holds a populated view whose filter values are the stored ones,
\* and the run that follows is an apply whose form returns the values `diff`
\* fields away from them.
ApplyOnCachedView(diff) ==
    /\ run'.kind = "apply"
    /\ Populated(session_state)
    /\ Differences(widget_state', session_state) = diff
    /\ ViewMatches(session_state)

C2_RecomputeOnChange ==
    [][(ApplyOnCachedView(1) /\ Len(SubsetOf(widget_state')) > 0) =>
          /\ run'.built = 1
          /\ session_state'.df_filtered = Some(SubsetOf(widget_state'))
          /\ session_state'.map_object = Some(MapOf(widget_state'))]_vars

C2_Witness ==
    /\ run.kind = "apply" /\ run.populated /\ run.matched
    /\ run.differs = 1 /\ run.outcome = "map"
    /\ session_state.map_mode = "Heatmap"
    /\ Len(Get(session_state.df_filtered)) = 1

\* C3 (empty selection): an apply whose form values select no record shows
\* the no-data warning, does not invoke the Map Builder, and leaves the stored
\* subset and the stored map as they were.
C3_EmptySelectionKeepsView ==
    [][(run'.kind = "apply" /\ Len(SubsetOf(widget_state')) = 0) =>
          /\ run'.outcome = "nodata"
          /\ page'.warning
          /\ run'.built = 0
          /\ session_state'.df_filtered = session_state.df_filtered
          /\ session_state'.map_object = session_state.map_object]_vars

C3_Witness ==
    /\ run.kind = "apply" /\ run.outcome = "nodata" /\ run.populated
    /\ ~IsNone(session_state.map_object)
    /\ ~IsNone(session_state.df_filtered)

\* C4 as stated (at most one resolve per user action): no run executes the
\* filter-and-build step more than once, the run of a reset and the re-run it
\* schedules execute it at most once together, and a re-run caused by neither
\* apply nor reset executes it zero times.
C4_AtMostOneResolve ==
    /\ run.filtered <= 1
    /\ run.kind = "reset" => run.filtered = 0
    /\ run.kind = "rerun" => run.filtered = 0

\* C5 as stated (reset restores defaults): after the run of a reset, and
\* after the re-run it schedules, the stored filter values are the defaults
\* in every field, and the view resolved by that re-run is the defaults' view.
C5_ResetRestoresDefaults ==
    /\ run.kind = "reset" => FilterOf(session_state) = FilterOf(DEFAULTS)
    /\ run.kind = "autorerun" =>
          /\ FilterOf(session_state) = FilterOf(DEFAULTS)
          /\ widget_state = FilterOf(DEFAULTS)
          /\ run.outcome = "map" => ViewMatches(session_state)

\* C6 as stated (reset invalidates the cache): the run of a reset leaves no
\* stored subset, no stored map and the session not initialized, and the
\* re-run that follows filters again and invokes the Map Builder.
C6_ResetInvalidates ==
    /\ run.kind = "reset" =>
          /\ IsNone(session_state.df_filtered)
          /\ IsNone(session_state.map_object)
          /\ ~session_state.initialized
    /\ run.kind = "autorerun" => (run.filtered = 1 /\ run.built = 1)

\* C7 as stated (prior view stays displayed): the page of an apply that ends
\* in the no-data condition while a map is stored shows the warning and that
\* stored map.
C7_PriorViewStaysDisplayed ==
    (run.kind = "apply" /\ run.outcome = "nodata"
        /\ ~IsNone(session_state.map_object)) =>
            (page.warning /\ page.map = session_state.map_object)

\* The filter predicate in the words of the specification.
Selected(row, c) ==
    /\ row.collision_severity \in {c.sev[i] : i \in DOMAIN c.sev}
    /\ row.collision_year # NaN
    /\ c.yrs[1] <= row.collision_year
    /\ row.collision_year <= c.yrs[2]
    /\ row.weather_conditions \in {c.wea[i] : i \in DOMAIN c.wea}
    /\ row.light_conditions \in {c.lig[i] : i \in DOMAIN c.lig}
    /\ row.road_type \in {c.roa[i] : i \in DOMAIN c.roa}

\* C8 (filter predicate): the result of apply_filters is exactly the
\* subsequence, in dataset order, of the rows whose severity, weather, lighting
\* and road type are among the chosen values and whose year is not null and
\* lies in the inclusive range.
C8_FilterPredicate ==
    call.done => call.result = SelectSeq(call.d, LAMBDA row : Selected(row, call))

C8_Witness ==
    /\ call.done
    /\ Len(call.d) = 2 /\ Len(call.result) = 1
    /\ call.d[1].collision_year = NaN
    /\ call.result[1].collision_year = call.yrs[2]
    /\ call.yrs[1] < call.yrs[2]

\* C9 as stated (Map Builder fault): a run in which the Map Builder raises
\* while a valid view is stored leaves the stored subset and the stored map
\* (and so the summary derived from them) as they were.
C9_FaultKeepsView ==
    [][(Populated(session_state) /\ ViewMatches(session_state)
            /\ run'.outcome = "error") =>
          /\ session_state'.df_filtered = session_state.df_filtered
          /\ session_state'.map_object = session_state.map_object]_vars

\* C10 as stated (invalid FilterSpec): an apply whose year range has min > max
\* ends in a rejection of its own, before any filtering or map build, and not
\* in the no-data outcome.
C10_InvertedRangeRejected ==
    (run.kind = "apply" /\ widget_state.years[1] > widget_state.years[2]) =>
        /\ run.outcome = "rejected"
        /\ run.filtered = 0
        /\ run.built = 0

\* C11 as stated (idempotent reset): when "Reset filters" is pressed twice in
\* a row, the stored filter values, the stored subset and the stored map after
\* the second reset are those after the first, and the second reset invoked
\* the Map Builder.
C11_ResetTwiceSame ==
    (~IsNone(resets) /\ Len(Get(resets)) = 2) =>
        LET first == Get(resets)[1]
            second == Get(resets)[2]
        IN  /\ second.filters = first.filters
            /\ second.df_filtered = first.df_filtered
            /\ second.map_object = first.map_object
            /\ second.built = 1

\* C12 (first display is an implicit apply with the defaults): the first run
\* of a fresh session stores mode Cluster, every severity, weather, lighting
\* and road-type value of the dataset and the full year range, filters once
\* and, the defaults selecting at least one record, builds the map once,
\* stores and shows the defaults' subset and map and leaves the session
\* initialized.
C12_FirstDisplayAppliesDefaults ==
    run.kind = "first" =>
        /\ session_state.map_mode = "Cluster"
        /\ \A i \in DOMAIN df :
              /\ isin(df[i].collision_severity, session_state.severity)
              /\ isin(df[i].weather_conditions, session_state.weather)
              /\ isin(df[i].light_conditions, session_state.light)
              /\ isin(df[i].road_type, session_state.road)
              /\ df[i].collision_year # NaN =>
                    /\ session_state.years[1] <= df[i].collision_year
                    /\ df[i].collision_year <= session_state.years[2]
        /\ FilterOf(session_state) = FilterOf(DEFAULTS)
        /\ run.filtered = 1
        /\ Len(SubsetOf(DEFAULTS)) > 0 =>
              /\ run.built = 1
              /\ Populated(session_state)
              /\ session_state.df_filtered = Some(SubsetOf(DEFAULTS))
              /\ session_state.map_object = Some(MapOf(DEFAULTS))
              /\ page.map = session_state.map_object
              /\ ~page.warning

C12_Witness ==
    /\ run.kind = "first" /\ run.outcome = "map"
    /\ session_state.initialized
    /\ ~IsNone(page.map) /\ Get(page.map).layer = "FastMarkerCluster"

SelectedOf(c) ==
    SelectSeq(c.d, LAMBDA row :
        /\ row.collision_severity \in {c.f.severity[i] : i \in DOMAIN c.f.severity}
        /\ row.collision_year # NaN
        /\ c.f.years[1] <= row.collision_year
        /\ row.collision_year <= c.f.years[2]
        /\ row.weather_conditions \in {c.f.weather[i] : i \in DOMAIN c.f.weather}
        /\ row.light_conditions \in {c.f.light[i] : i \in DOMAIN c.f.light}
        /\ row.road_type \in {c.f.road[i] : i \in DOMAIN c.f.road})

\* C14 (summary correctness): whenever a summary is emitted, a map is shown
\* with it, total is the number of records of that map's subset, fatal is the
\* number of those with severity Fatal, and the rate is fatal / total * 100
\* to the nearest hundredth of a percent; for the scenario dataset with all
\* values selected it is total=2, fatal=1, 50.00%, and narrowed to severity
\* Fatal it is total=1, 100.00%.
C14_SummaryCorrect ==
    (call.done /\ ~IsNone(call.page.summary)) =>
        LET shown == Get(call.page.summary)
            sub == SelectedOf(call)
            fatal == Cardinality({i \in DOMAIN sub :
                                     sub[i].collision_severity = "Fatal"})
            off == shown.rate * shown.total - fatal * 10000
        IN  /\ ~IsNone(call.page.map)
            /\ Len(Get(call.page.map).coords) = shown.total
            /\ shown.total = Len(sub)
            /\ shown.total >= 1
            /\ shown.fatal = fatal
            /\ 2 * (IF off < 0 THEN 0 - off ELSE off) <= shown.total
            /\ (call.d = scenario_dataset /\ call.f.years = <<2019, 2020>>) =>
                  /\ call.f.severity = <<"Fatal", "Slight">> =>
                        shown = [total |-> 2, fatal |-> 1, rate |-> 5000]
                  /\ call.f.severity = <<"Fatal">> =>
                        shown = [total |-> 1, fatal |-> 1, rate |-> 10000]

C14_Witness ==
    /\ call.done /\ ~IsNone(call.page.summary)
    /\ Get(call.page.summary) = [total |-> 3, fatal |-> 2, rate |-> 6667]
    /\ ~IsNone(call.page.map)

HasCoordinates(row) == row.latitude # NaN /\ row.longitude # NaN

\* The rows of d that occur in sub, in the order of d.
RowsAmong(d, sub) ==
    SelectSeq(d, LAMBDA row : \E i \in DOMAIN sub : sub[i] = row)

\* C15 (dataset immutability): in every state of the session the dataset is
\* the loaded file without the rows that lack a latitude or a longitude, in
\* the file's order; the stored subset is made of dataset rows in dataset
\* order; and no row without coordinates is in the dataset, in the stored
\* subset or on the displayed map.
C15_DatasetFixed ==
    LET kept == SelectSeq(collision_csv, HasCoordinates)
    IN  /\ Len(df) = Len(kept)
        /\ \A i \in DOMAIN df :
              /\ HasCoordinates(df[i])
              /\ df[i].latitude = kept[i].latitude
              /\ df[i].longitude = kept[i].longitude
              /\ df[i].weather_conditions = kept[i].weather_conditions
        /\ ~IsNone(session_state.df_filtered) =>
              LET sub == Get(session_state.df_filtered)
              IN  /\ sub = RowsAmong(df, sub)
                  /\ \A i \in DOMAIN sub : HasCoordinates(sub[i])
        /\ ~IsNone(page.map) =>
              \A i \in DOMAIN Get(page.map).coords :
                  /\ Get(page.map).coords[i][1] # NaN
                  /\ Get(page.map).coords[i][2] # NaN
                  /\ \E j \in DOMAIN df :
                        Get(page.map).coords[i] = <<df[j].latitude, df[j].longitude>>

C15_Witness ==
    /\ run.kind = "autorerun" /\ run.outcome = "map"
    /\ \E i \in DOMAIN collision_csv : ~HasCoordinates(collision_csv[i])
    /\ Len(Get(session_state.df_filtered)) = 1
    /\ Len(Get(page.map).coords) = 1
    /\ Len(df) = 3

\* C16 as stated (cache-entry consistency): at the end of every run in which
\* the Map Builder did not raise, an initialized session has a stored subset
\* and a stored map built from exactly the coordinates of that subset, and a
\* stored map is never without a stored subset.
C16_EntryConsistent ==
    run.outcome # "error" =>
        /\ session_state.initialized =>
              /\ ~IsNone(session_state.map_object)
              /\ ~IsNone(session_state.df_filtered)
              /\ Get(session_state.map_object).coords =
                    [i \in DOMAIN Get(session_state.df_filtered) |->
                        <<Get(session_state.df_filtered)[i].latitude,
                          Get(session_state.df_filtered)[i].longitude>>]
        /\ ~IsNone(session_state.map_object) =>
              ~IsNone(session_state.df_filtered)

\* C17 (no division by zero in the summary): in every state of the session
\* the stored subset is either None or has at least one record, and a summary
\* on the page has a total of at least 1.
C17_StoredSubsetNonEmpty ==
    /\ IsNone(session_state.df_filtered)
           \/ Len(Get(session_state.df_filtered)) >= 1
    /\ IsNone(page.summary) \/ Get(page.summary).total >= 1

C17_Witness ==
    /\ run.kind = "rerun" /\ run.outcome = "idle"
    /\ Len(SubsetOf(session_state)) = 0
    /\ ~IsNone(page.summary)
    /\ Get(page.summary).total = Len(Get(session_state.df_filtered))

\* C18 as stated (displayed view matches stored filters): on every page that
\* shows a summary and a map, the stored subset is the filter predicate
\* applied to the filter values held in the session state, the stored map is
\* built from that subset, and its layer is the one of the stored map mode.
C18_ViewOfStoredFilters ==
    (~IsNone(page.summary) /\ ~IsNone(page.map)) =>
        /\ session_state.df_filtered = Some(SubsetOf(session_state))
        /\ session_state.map_object = Some(MapOf(session_state))
        /\ Get(page.map).layer =
              (IF session_state.map_mode = "Cluster" THEN "FastMarkerCluster"
               ELSE "HeatMap")

\* C19 as stated (reset eventually re-populates): the defaults selecting at
\* least one record, the run of every reset is followed, by the re-run it
\* schedules alone, by a state in which the session is initialized and a map
\* is stored and displayed.
C19_ResetRepopulates ==
    (Len(SubsetOf(DEFAULTS)) > 0 /\ run.kind = "reset" /\ rerun_requested)
        ~> (/\ session_state.initialized
            /\ ~IsNone(session_state.map_object)
            /\ page.map = session_state.map_object)

====
